---------------------------- MODULE Spec2Model ----------------------------
(***************************************************************************)
(* Model of binary-waterfall.py: the BinaryWaterfall object (source bytes, *)
(* geometry, color format, audio settings, derived audio length), its      *)
(* color-format mini-language, the time -> address mapping and the frame   *)
(* synthesis; and the Renderer that exports frames, frame sequences,       *)
(* audio and video from it.                                                *)
(*                                                                         *)
(* Conventions.                                                            *)
(*  - A Python str is a sequence of one-character strings, a Python bytes  *)
(*    object a sequence of integers 0..255.                                *)
(*  - A field that can be None is an option: <<>> is None, <<v>> is v.     *)
(*  - `bw` is the BinaryWaterfall object (the name the Renderer uses),     *)
(*    `disk` the files of its temp_dir, `fmt_in` the format string a       *)
(*    caller is about to pass, `ret` the outcome of the last call as its   *)
(*    caller sees it.                                                      *)
(*  - `fs` is the file system outside temp_dir, `job` the export_sequence  *)
(*    or export_video call that is running (its locals, its position and   *)
(*    its worker pool), `progress_dialog` the dialog that call was given.  *)
(***************************************************************************)
EXTENDS Integers, Sequences, FiniteSets, TLC

VARIABLES bw, disk, fmt_in, ret, fs, job, progress_dialog

vars == <<bw, disk, fmt_in, ret, fs, job, progress_dialog>>

None == <<>>
Some(v) == <<v>>
Val(o) == o[1]

\* ret when the last call has returned and its outcome has been taken
Idle == [op |-> "idle"]

\* job when no export_sequence or export_video call is running
NoJob == [op |-> "none", pc |-> "none"]

\* a file system with no directory and no file, in which mkdtemp has made
\* no directory yet
NoFiles == [dirs |-> {}, files |-> <<>>, made |-> 0]

-----------------------------------------------------------------------------
(* Bounds of the model *)

\* longest color format string passed to parse_color_format
MaxFmtLen == 4
\* longest source file
MaxFileLen == 48
\* largest width and height passed to set_dims
MaxDim == 4
\* longest source file loaded in SpecAudio
MaxAudioLen == 12
\* longest source file exported in SpecSequence and SpecVideo
MaxExportLen == 5
\* worker processes of the multiprocessing.Pool
PoolSize == 2
\* export_video calls in one behaviour: each makes a scratch directory of a
\* name never used before
MaxScratch == 1

-----------------------------------------------------------------------------
(* Python str helpers used by parse_color_format *)

\* characters format strings are drawn from: the five codes, two upper-case
\* codes, a whitespace character and a character outside the alphabet
Chars == {"r", "g", "b", "w", "x", "R", "W", " ", "q"}

IsSpace(c) == c = " "

LowerChar(c) ==
    CASE c = "R" -> "r"
      [] c = "G" -> "g"
      [] c = "B" -> "b"
      [] c = "W" -> "w"
      [] c = "X" -> "x"
      [] OTHER -> c

\* str.lower()
lower(s) == [i \in DOMAIN s |-> LowerChar(s[i])]

\* str.strip(): leading and trailing whitespace removed, interior kept
RECURSIVE lstrip(_)
lstrip(s) == IF s # <<>> /\ IsSpace(Head(s)) THEN lstrip(Tail(s)) ELSE s

RECURSIVE rstrip(_)
rstrip(s) ==
    IF s # <<>> /\ IsSpace(s[Len(s)]) THEN rstrip(SubSeq(s, 1, Len(s) - 1)) ELSE s

\* every whitespace character removed, interior ones too
RemoveSpaces(s) ==
    LET keep == {i \in DOMAIN s : ~IsSpace(s[i])}
        nth[k \in 0 .. Cardinality(keep)] ==
            IF k = 0 THEN 0
            ELSE CHOOSE i \in keep : i > nth[k - 1] /\
                     \A j \in keep : j > nth[k - 1] => i <= j
    IN  [k \in 1 .. Cardinality(keep) |-> s[nth[k]]]

strip(s) == rstrip(lstrip(s))

\* str.count(c) for a one-character c
count(s, c) == Cardinality({i \in DOMAIN s : s[i] = c})

-----------------------------------------------------------------------------
(* ColorFmtCode and parse_color_format *)

ColorFmtCode == {"RED", "GREEN", "BLUE", "WHITE", "UNUSED"}

\* ColorFmtCode.<tag>.value
\* the values of RED and BLUE exchanged
CodeValueSwapped(tag) ==
    CASE tag = "RED" -> "b"
      [] tag = "GREEN" -> "g"
      [] tag = "BLUE" -> "r"
      [] tag = "WHITE" -> "w"
      [] tag = "UNUSED" -> "x"

CodeValue(tag) ==
    CASE tag = "RED" -> "r"
      [] tag = "GREEN" -> "g"
      [] tag = "BLUE" -> "b"
      [] tag = "WHITE" -> "w"
      [] tag = "UNUSED" -> "x"

VALID_OPTIONS == <<"r", "g", "b", "w", "x">>

InValidOptions(c) == \E i \in DOMAIN VALID_OPTIONS : VALID_OPTIONS[i] = c

\* the if/elif chain of the loop body: the tag appended for a valid character
TagOf(c) ==
    CASE c = "r" -> "RED"
      [] c = "g" -> "GREEN"
      [] c = "b" -> "BLUE"
      [] c = "w" -> "WHITE"
      [] c = "x" -> "UNUSED"

Invalid(msg) == [is_valid |-> FALSE, message |-> msg]

\* the loop over the characters: the tag list, or the invalid result at the
\* first character outside VALID_OPTIONS
RECURSIVE build_format_list(_, _, _)
build_format_list(s, i, acc) ==
    IF i > Len(s) THEN [is_valid |-> TRUE, color_format |-> acc]
    ELSE IF ~InValidOptions(s[i]) THEN Invalid("codes")
    ELSE build_format_list(s, i + 1, Append(acc, TagOf(s[i])))

\* used_color_bytes of a successful parse
UsedColorBytesNoWhite(rgb_count, white_count) == rgb_count

UsedColorBytes(rgb_count, white_count) == rgb_count + white_count

\* the `count > 1` test of the white, red, green and blue checks
MoreThanTwo(n) == n > 2

MoreThanOne(n) == n > 1

\* color_mode: GRAYSCALE in the white branch, RGB in the other
AlwaysRGB(white_count) == "RGB"

ColorMode(white_count) == IF white_count > 0 THEN "GRAYSCALE" ELSE "RGB"

parse_color_format(color_format_string) ==
    LET s == lower(strip(color_format_string))
        red_count == count(s, "r")
        green_count == count(s, "g")
        blue_count == count(s, "b")
        white_count == count(s, "w")
        unused_count == count(s, "x")
        rgb_count == red_count + green_count + blue_count
        color_mode == ColorMode(white_count)
        list == build_format_list(s, 1, <<>>)
        used == UsedColorBytes(rgb_count, white_count)
    IN  IF white_count > 0 /\ rgb_count > 0 THEN Invalid("white_with_rgb")
        ELSE IF MoreThanOne(white_count) THEN Invalid("white_count")
        ELSE IF white_count = 0 /\ rgb_count < 1 THEN Invalid("no_color")
        ELSE IF white_count = 0 /\ MoreThanOne(red_count) THEN Invalid("red_count")
        ELSE IF white_count = 0 /\ MoreThanOne(green_count) THEN Invalid("green_count")
        ELSE IF white_count = 0 /\ MoreThanOne(blue_count) THEN Invalid("blue_count")
        ELSE IF ~list.is_valid THEN list
        ELSE [is_valid |-> TRUE,
              used_color_bytes |-> used,
              unused_color_bytes |-> unused_count,
              color_bytes |-> used + unused_count,
              color_mode |-> color_mode,
              color_format |-> list.color_format]

is_color_format_valid(color_format_string) ==
    parse_color_format(color_format_string).is_valid

\* the object after set_color_format, or "ValueError" when it raises
set_color_format(self, color_format_string) ==
    LET parsed_string == parse_color_format(color_format_string)
    IN  IF ~parsed_string.is_valid
        THEN [raised |-> "ValueError", self |-> self]
        ELSE [raised |-> "",
              self |-> [self EXCEPT
                  !.used_color_bytes = parsed_string.used_color_bytes,
                  !.unused_color_bytes = parsed_string.unused_color_bytes,
                  !.color_bytes = parsed_string.color_bytes,
                  !.color_format = parsed_string.color_format]]

RECURSIVE join_values(_, _)
join_values(color_format, i) ==
    IF i > Len(color_format) THEN <<>>
    ELSE <<CodeValue(color_format[i])>> \o join_values(color_format, i + 1)

get_color_format_string(self) == join_values(self.color_format, 1)

-----------------------------------------------------------------------------
(* Source files, the temp_dir and set_filename *)

\* the byte stored at 1-based position k of every source file: non-zero and
\* different at different positions, so that a moved byte shows
ByteAt(k) == ((k - 1) % 255) + 1

\* the existing source files: one of every length, named by its length
Files == 0 .. MaxFileLen

\* a path that is no file (os.path.isfile is false)
MissingFile == -1

FileBytes(f) == [k \in 1 .. f |-> ByteAt(k)]

\* files of temp_dir other than `name`
Remove(d, name) == [n \in (DOMAIN d) \ {name} |-> d[n]]

\* temp_dir with `name` holding `content`
Put(d, name, content) ==
    [n \in (DOMAIN d) \cup {name} |-> IF n = name THEN content ELSE d[n]]

\* the file left where it is
KeepAudio(self, d) == d

\* delete_audio: os.remove of the audio file, a missing file ignored
delete_audio(self, d) ==
    IF self.audio_filename = None THEN d ELSE Remove(d, Val(self.audio_filename))

\* filename is None (no file), or Some(f) for a path f
set_filename(self, d, filename) ==
    LET d1 == delete_audio(self, d)
    IN  IF filename = None
        THEN [raised |-> "",
              self |-> [self EXCEPT !.filename = None, !.bytes = None,
                                    !.total_bytes = None, !.audio_filename = None],
              disk |-> d1]
        ELSE IF Val(filename) \notin Files
        THEN [raised |-> "FileNotFoundError", self |-> self, disk |-> d1]
        ELSE [raised |-> "",
              self |-> [self EXCEPT
                  !.filename = filename,
                  !.bytes = Some(FileBytes(Val(filename))),
                  !.total_bytes = Some(Len(FileBytes(Val(filename)))),
                  !.audio_filename = Some(<<Val(filename), "wav">>)],
              disk |-> d1]

\* a width or height under 4 raised to 4
set_dims_clamped(self, width, height) ==
    LET w == IF width < 4 THEN 4 ELSE width
        h == IF height < 4 THEN 4 ELSE height
    IN  [raised |-> "",
         self |-> [self EXCEPT !.width = w, !.height = h, !.dim = <<w, h>>]]

set_dims(self, width, height) ==
    IF width < 4 THEN [raised |-> "ValueError", self |-> self]
    ELSE IF height < 4 THEN [raised |-> "ValueError", self |-> self]
    ELSE [raised |-> "",
          self |-> [self EXCEPT !.width = width, !.height = height,
                                !.dim = <<width, height>>]]

-----------------------------------------------------------------------------
(* The audio artifact: compute_audio and get_audio_length *)

\* ceil(a / b) for a >= 0, b > 0
CeilDiv(a, b) == (a + b - 1) \div b

\* only the whole frames of the source written
WaveFileWholeFrames(self) ==
    LET frame_width == self.num_channels * self.sample_bytes
    IN  [nchannels |-> self.num_channels,
         sampwidth |-> self.sample_bytes,
         framerate |-> self.sample_rate,
         frames |-> SubSeq(Val(self.bytes), 1,
                           (Len(Val(self.bytes)) \div frame_width) * frame_width),
         volume |-> 100]

\* the wave file written by wave.open(...).writeframesraw(self.bytes)
WaveFile(self) ==
    [nchannels |-> self.num_channels,
     sampwidth |-> self.sample_bytes,
     framerate |-> self.sample_rate,
     frames |-> Val(self.bytes),
     volume |-> 100]

\* the gain step: pydub reads the file, scales every sample by volume / 100 and
\* writes it again; `frames` stays the PCM the samples are scaled from and
\* `volume` records the scale. 24-bit audio is stored by pydub as 32-bit
\* samples, a trailing partial sample dropped; scaling 16- or 32-bit audio
\* whose length is not a whole number of samples fails in audioop.
ScaleFails(w) ==
    w.sampwidth \in {2, 4} /\ Len(w.frames) % w.sampwidth # 0

\* 24-bit sample j (0-based) of w as pydub holds it: a sign byte, then the
\* three bytes of the sample
Widen24(frames, k) ==
    LET j == (k - 1) \div 4
        o == (k - 1) % 4
    IN  IF o = 0 THEN (IF frames[3 * j + 3] > 127 THEN 255 ELSE 0)
        ELSE frames[3 * j + o]

Scaled(w, volume) ==
    IF w.sampwidth = 3
    THEN [w EXCEPT !.sampwidth = 4,
                   !.frames = [k \in 1 .. 4 * (Len(w.frames) \div 3) |->
                                  Widen24(w.frames, k)],
                   !.volume = volume]
    ELSE [w EXCEPT !.volume = volume]

\* get_audio_length on the artifact w: pydub's duration_seconds is the number
\* of whole frames over the frame rate; math.ceil of it times 1000. (Python
\* computes the quotient and the product in floating point; for the file
\* lengths and rates of this model the result is the exact ceiling.)
get_audio_length(w) ==
    LET frame_count == Len(w.frames) \div (w.nchannels * w.sampwidth)
    IN  CeilDiv(frame_count * 1000, w.framerate)

compute_audio(self, d) ==
    IF self.filename = None
    THEN [raised |-> "", self |-> [self EXCEPT !.audio_length_ms = None], disk |-> d]
    ELSE LET name == Val(self.audio_filename)
             d1 == Put(delete_audio(self, d), name, WaveFile(self))
         IN  IF self.volume = 100
             THEN [raised |-> "",
                   self |-> [self EXCEPT
                       !.audio_length_ms = Some(get_audio_length(d1[name]))],
                   disk |-> d1]
             ELSE IF ScaleFails(d1[name])
             THEN [raised |-> "audioop.error", self |-> self, disk |-> d1]
             ELSE LET d2 == Put(d1, name, Scaled(d1[name], self.volume))
                  IN  [raised |-> "",
                       self |-> [self EXCEPT
                           !.audio_length_ms = Some(get_audio_length(d2[name]))],
                       disk |-> d2]

\* each setting stored as soon as it has been found valid
set_audio_settings_stepwise(self, d, num_channels, sample_bytes, sample_rate, volume) ==
    LET s1 == [self EXCEPT !.num_channels = num_channels]
        s2 == [s1 EXCEPT !.sample_bytes = sample_bytes]
        s3 == [s2 EXCEPT !.sample_rate = sample_rate]
        s4 == [s3 EXCEPT !.volume = volume]
    IN  IF num_channels \notin {1, 2}
        THEN [raised |-> "ValueError", self |-> self, disk |-> d]
        ELSE IF sample_bytes \notin {1, 2, 3, 4}
        THEN [raised |-> "ValueError", self |-> s1, disk |-> d]
        ELSE IF sample_rate < 1
        THEN [raised |-> "ValueError", self |-> s2, disk |-> d]
        ELSE IF volume < 0 \/ volume > 100
        THEN [raised |-> "ValueError", self |-> s3, disk |-> d]
        ELSE compute_audio(s4, d)

set_audio_settings(self, d, num_channels, sample_bytes, sample_rate, volume) ==
    IF num_channels \notin {1, 2}
    THEN [raised |-> "ValueError", self |-> self, disk |-> d]
    ELSE IF sample_bytes \notin {1, 2, 3, 4}
    THEN [raised |-> "ValueError", self |-> self, disk |-> d]
    ELSE IF sample_rate < 1
    THEN [raised |-> "ValueError", self |-> self, disk |-> d]
    ELSE IF volume < 0 \/ volume > 100
    THEN [raised |-> "ValueError", self |-> self, disk |-> d]
    ELSE compute_audio([self EXCEPT !.num_channels = num_channels,
                                    !.sample_bytes = sample_bytes,
                                    !.sample_rate = sample_rate,
                                    !.volume = volume], d)

change_filename(self, d, new_filename) ==
    LET r == set_filename(self, d, new_filename)
    IN  IF r.raised # "" THEN r ELSE compute_audio(r.self, r.disk)

-----------------------------------------------------------------------------
(* get_address and get_frame_bytestring *)

\* round with a tie sent upwards
RoundHalfUp(n, d) == (2 * n + d) \div (2 * d)

\* Python round(n / d) for n >= 0, d > 0: to the nearest integer, a tie to the
\* even one
RoundHalfEven(n, d) ==
    LET q == n \div d
        r == n % d
    IN  IF 2 * r < d THEN q
        ELSE IF 2 * r > d THEN q + 1
        ELSE IF q % 2 = 0 THEN q ELSE q + 1

TotalBlocks(total_bytes, address_block_size) ==
    CeilDiv(total_bytes, address_block_size)

BlockOffset(ms, total_blocks, audio_length_ms) ==
    RoundHalfEven(ms * total_blocks, audio_length_ms)

get_address(self, ms) ==
    LET address_block_size == self.width * self.color_bytes
    IN  IF self.total_bytes = None \/ self.audio_length_ms = None
        THEN [raised |-> "TypeError", value |-> 0]
        ELSE IF Val(self.audio_length_ms) = 0
        THEN [raised |-> "ZeroDivisionError", value |-> 0]
        ELSE [raised |-> "",
              value |-> BlockOffset(ms,
                            TotalBlocks(Val(self.total_bytes), address_block_size),
                            Val(self.audio_length_ms)) * address_block_size]

\* self.bytes[a:a + 1]: one byte, or the empty bytes object past the end
Slice1(bytes, a) == IF a < Len(bytes) THEN <<bytes[a + 1]>> ELSE <<>>

\* `for c in self.color_format` from tag i on: this_byte is <<R, G, B>>, each a
\* bytes object; the cursor advances once per tag
AdvanceUsed(current_address, c) ==
    IF c = "UNUSED" THEN current_address ELSE current_address + 1

Advance(current_address, c) == current_address + 1

RECURSIVE fill_pixel(_, _, _, _, _)
fill_pixel(bytes, color_format, i, current_address, this_byte) ==
    IF i > Len(color_format)
    THEN [this_byte |-> this_byte, current_address |-> current_address]
    ELSE LET c == color_format[i]
             b == Slice1(bytes, current_address)
             filled ==
                 CASE c = "RED" -> [this_byte EXCEPT ![1] = b]
                   [] c = "GREEN" -> [this_byte EXCEPT ![2] = b]
                   [] c = "BLUE" -> [this_byte EXCEPT ![3] = b]
                   [] c = "WHITE" -> <<b, b, b>>
                   [] OTHER -> this_byte
         IN  fill_pixel(bytes, color_format, i + 1, Advance(current_address, c),
                        filled)

\* b"".join(this_byte)
JoinPixel(this_byte) == this_byte[1] \o this_byte[2] \o this_byte[3]

\* the row and column loops, n pixels still to produce
RECURSIVE pixel_loop(_, _, _, _)
pixel_loop(self, n, current_address, picture_bytes) ==
    IF n = 0 THEN picture_bytes
    ELSE LET p == fill_pixel(Val(self.bytes), self.color_format, 1,
                             current_address, << <<0>>, <<0>>, <<0>> >>)
         IN  pixel_loop(self, n - 1, p.current_address,
                        picture_bytes \o JoinPixel(p.this_byte))

\* no padding
NoPad(picture_bytes, full_length) == picture_bytes

\* the padding at the end of get_frame_bytestring
PadPicture(picture_bytes, full_length) ==
    IF Len(picture_bytes) < full_length
    THEN picture_bytes \o [k \in 1 .. full_length - Len(picture_bytes) |-> 0]
    ELSE picture_bytes

get_frame_bytestring(self, ms) ==
    LET a == get_address(self, ms)
    IN  IF a.raised # "" THEN [raised |-> a.raised, value |-> <<>>]
        ELSE [raised |-> "",
              value |-> PadPicture(
                  pixel_loop(self, self.height * self.width, a.value, <<>>),
                  self.width * self.height * 3)]

-----------------------------------------------------------------------------
(* The constructor *)

DefaultWidth == 48
DefaultHeight == 48
DefaultColorFormat == <<"b", "g", "r", "x">>
DefaultNumChannels == 1
DefaultSampleBytes == 1
DefaultSampleRate == 32000
DefaultVolume == 100

\* the attributes before __init__ has set them; audio_filename is pre-set
Blank ==
    [filename |-> None, bytes |-> None, total_bytes |-> None,
     audio_filename |-> None, width |-> None, height |-> None, dim |-> None,
     used_color_bytes |-> None, unused_color_bytes |-> None,
     color_bytes |-> None, color_format |-> None,
     num_channels |-> None, sample_bytes |-> None, sample_rate |-> None,
     volume |-> None, audio_length_ms |-> None]

\* BinaryWaterfall(...): the four setters in turn, the first raise ends it
construct(filename, width, height, color_format_string, num_channels, sample_bytes, sample_rate, volume) ==
    LET r1 == set_filename(Blank, <<>>, filename)
        r2 == set_dims(r1.self, width, height)
        r3 == set_color_format(r2.self, color_format_string)
        r4 == set_audio_settings(r3.self, r1.disk, num_channels, sample_bytes,
                                 sample_rate, volume)
    IN  IF r1.raised # "" THEN r1
        ELSE IF r2.raised # "" THEN [r2 EXCEPT !.self = Blank] @@ [disk |-> <<>>]
        ELSE IF r3.raised # "" THEN [r3 EXCEPT !.self = Blank] @@ [disk |-> <<>>]
        ELSE r4

-----------------------------------------------------------------------------
(* Inputs *)

\* every string of at most MaxFmtLen characters
FmtStrings == UNION {[1 .. n -> Chars] : n \in 0 .. MaxFmtLen}

\* the format strings callers of the object pass: valid ones in both modes,
\* with and without unused bytes, and invalid ones
FormatArgs ==
    {<<"b", "g", "r", "x">>, <<"b", "g", "r">>, <<"r", "g", "b", "x">>,
     <<"w">>, <<"x", "w">>, <<"r", "x">>, <<"g", "b">>,
     <<"r", "r">>, <<"w", "r">>, <<"q">>, <<>>}

FilenameArgs == {None, Some(MissingFile)} \cup {Some(f) : f \in Files}

DimArgs == 3 .. MaxDim

\* audio settings: one and two channels, 8- and 16-bit samples (0 is no
\* sample size), two rates at which the audio of these sources lasts several
\* milliseconds (an even or an odd number of them), full volume
NumChannelsArgs == {1, 2}
SampleBytesArgs == {0, 1, 2}
SampleRateArgs == {1000, 3200}
VolumeArgs == {100}

\* the format strings passed in SpecAddr: one to four bytes a pixel
AddrFormatArgs ==
    {<<"r", "g", "b", "x">>, <<"b", "g", "r">>, <<"r", "x">>, <<"w">>, <<"q">>}

\* the timestamps a caller passes: clamped to [0, audio_length_ms]
MsArgs(self) ==
    IF self.audio_length_ms = None THEN {0} ELSE 0 .. Val(self.audio_length_ms)

-----------------------------------------------------------------------------
(* Actions: one per operation of the object. An operation starts when the  *)
(* previous call has returned (ret = Idle) and leaves its outcome in ret.  *)

ChangeFilename(new_filename) ==
    /\ ret = Idle /\ job = NoJob
    /\ LET r == change_filename(bw, disk, new_filename)
       IN  /\ bw' = r.self
           /\ disk' = r.disk
           /\ ret' = [op |-> "change_filename", raised |-> r.raised]
    /\ UNCHANGED <<fmt_in, fs, job, progress_dialog>>

SetDims(width, height) ==
    /\ ret = Idle /\ job = NoJob
    /\ LET r == set_dims(bw, width, height)
       IN  /\ bw' = r.self
           /\ ret' = [op |-> "set_dims", raised |-> r.raised]
    /\ UNCHANGED <<disk, fmt_in, fs, job, progress_dialog>>

SetColorFormat(color_format_string) ==
    /\ ret = Idle /\ job = NoJob
    /\ LET r == set_color_format(bw, color_format_string)
       IN  /\ bw' = r.self
           /\ ret' = [op |-> "set_color_format", arg |-> color_format_string,
                      raised |-> r.raised]
    /\ UNCHANGED <<disk, fmt_in, fs, job, progress_dialog>>

IsColorFormatValid(color_format_string) ==
    /\ ret = Idle /\ job = NoJob
    /\ ret' = [op |-> "is_color_format_valid", arg |-> color_format_string,
               value |-> is_color_format_valid(color_format_string)]
    /\ UNCHANGED <<bw, disk, fmt_in, fs, job, progress_dialog>>

ParseColorFormat(color_format_string) ==
    /\ ret = Idle /\ job = NoJob
    /\ ret' = [op |-> "parse_color_format", arg |-> color_format_string,
               value |-> parse_color_format(color_format_string)]
    /\ UNCHANGED <<bw, disk, fmt_in, fs, job, progress_dialog>>

\* get_color_format_string() called right after a set_color_format that
\* returned: `after` is the string that call was given
GetColorFormatString ==
    /\ ret.op = "set_color_format"
    /\ ret.raised = ""
    /\ ret' = [op |-> "get_color_format_string", after |-> ret.arg,
               value |-> get_color_format_string(bw)]
    /\ UNCHANGED <<bw, disk, fmt_in, fs, job, progress_dialog>>

SetAudioSettings(num_channels, sample_bytes, sample_rate, volume) ==
    /\ ret = Idle /\ job = NoJob
    /\ LET r == set_audio_settings(bw, disk, num_channels, sample_bytes,
                                   sample_rate, volume)
       IN  /\ bw' = r.self
           /\ disk' = r.disk
           /\ ret' = [op |-> "set_audio_settings", raised |-> r.raised]
    /\ UNCHANGED <<fmt_in, fs, job, progress_dialog>>

GetAddress(ms) ==
    /\ ret = Idle /\ job = NoJob
    /\ LET r == get_address(bw, ms)
       IN  ret' = [op |-> "get_address", arg |-> ms, raised |-> r.raised,
                   value |-> r.value]
    /\ UNCHANGED <<bw, disk, fmt_in, fs, job, progress_dialog>>

GetFrameBytestring(ms) ==
    /\ ret = Idle /\ job = NoJob
    /\ LET r == get_frame_bytestring(bw, ms)
       IN  ret' = [op |-> "get_frame_bytestring", arg |-> ms,
                   raised |-> r.raised, value |-> r.value]
    /\ UNCHANGED <<bw, disk, fmt_in, fs, job, progress_dialog>>

\* the caller takes the outcome of the call and drops the progress dialog it
\* had made for it
Return ==
    /\ ret # Idle
    /\ ret' = Idle
    /\ progress_dialog' = None
    /\ UNCHANGED <<bw, disk, fmt_in, fs, job>>

-----------------------------------------------------------------------------
(* SpecFrame: frames of the object under any sequence of change_filename,  *)
(* set_dims and set_color_format calls. The object is built at 1000        *)
(* one-byte mono samples a second, so that a source of n bytes lasts n ms  *)
(* and the timestamps reach every block of it.                             *)

FrameSampleRate == 1000

InitFrame ==
    /\ \E width \in 4 .. MaxDim, height \in 4 .. MaxDim :
          LET r == construct(None, width, height, DefaultColorFormat,
                             DefaultNumChannels, DefaultSampleBytes,
                             FrameSampleRate, DefaultVolume)
          IN  /\ r.raised = ""
              /\ bw = r.self
              /\ disk = r.disk
    /\ fmt_in = <<>>
    /\ ret = Idle
    /\ fs = NoFiles
    /\ job = NoJob
    /\ progress_dialog = None

NextFrame ==
    \/ \E f \in FilenameArgs : ChangeFilename(f)
    \/ \E width \in DimArgs, height \in DimArgs : SetDims(width, height)
    \/ \E s \in FormatArgs : SetColorFormat(s)
    \/ \E ms \in MsArgs(bw) : GetFrameBytestring(ms)
    \/ Return

SpecFrame == InitFrame /\ [][NextFrame]_vars

-----------------------------------------------------------------------------
(* SpecAddr: get_address of the object under any sequence of               *)
(* change_filename, set_dims, set_color_format and set_audio_settings      *)
(* calls, from the object built with the default audio settings.           *)

InitAddr ==
    /\ \E width \in 4 .. MaxDim, height \in 4 .. MaxDim :
          LET r == construct(None, width, height, DefaultColorFormat,
                             DefaultNumChannels, DefaultSampleBytes,
                             DefaultSampleRate, DefaultVolume)
          IN  /\ r.raised = ""
              /\ bw = r.self
              /\ disk = r.disk
    /\ fmt_in = <<>>
    /\ ret = Idle
    /\ fs = NoFiles
    /\ job = NoJob
    /\ progress_dialog = None

NextAddr ==
    \/ \E f \in FilenameArgs : ChangeFilename(f)
    \/ \E width \in DimArgs, height \in DimArgs : SetDims(width, height)
    \/ \E s \in AddrFormatArgs : SetColorFormat(s)
    \/ \E nc \in NumChannelsArgs, sb \in SampleBytesArgs,
          sr \in SampleRateArgs, vol \in VolumeArgs :
          SetAudioSettings(nc, sb, sr, vol)
    \/ \E ms \in MsArgs(bw) : GetAddress(ms)
    \/ Return

SpecAddr == InitAddr /\ [][NextAddr]_vars

-----------------------------------------------------------------------------
(* SpecFmt: the color format mini-language on every string of at most      *)
(* MaxFmtLen characters. The object is built with a format of its own and  *)
(* the caller then passes fmt_in.                                          *)

InitFmt ==
    /\ fmt_in \in FmtStrings
    /\ \E s \in {DefaultColorFormat, <<"w">>} :
          LET r == construct(None, DefaultWidth, DefaultHeight, s,
                             DefaultNumChannels, DefaultSampleBytes,
                             DefaultSampleRate, DefaultVolume)
          IN  /\ r.raised = ""
              /\ bw = r.self
              /\ disk = r.disk
    /\ ret = Idle
    /\ fs = NoFiles
    /\ job = NoJob
    /\ progress_dialog = None

NextFmt ==
    \/ SetColorFormat(fmt_in)
    \/ IsColorFormatValid(fmt_in)
    \/ ParseColorFormat(fmt_in)
    \/ GetColorFormatString

SpecFmt == InitFmt /\ [][NextFmt]_vars

-----------------------------------------------------------------------------
(* Claims about the color format mini-language, checked under SpecFmt *)

\* the last call was given a format string
FormatCall == ret.op \in {"set_color_format", "is_color_format_valid",
                          "parse_color_format"}

\* ... and accepted it
Accepted ==
    CASE ret.op = "set_color_format" -> ret.raised = ""
      [] ret.op = "is_color_format_valid" -> ret.value
      [] ret.op = "parse_color_format" -> ret.value.is_valid
      [] OTHER -> FALSE

\* occurrences of the code c in the string passed, upper or lower case
ArgCount(c) == Cardinality({i \in DOMAIN ret.arg : LowerChar(ret.arg[i]) = c})

\* occurrences of a tag in a tag list
TagCount(color_format, tag) ==
    Cardinality({i \in DOMAIN color_format : color_format[i] = tag})

\* C1 as stated: a string without 'w' is accepted only with exactly one 'r',
\* one 'g' and one 'b', and the stored format has exactly one WHITE and no
\* RED, GREEN, BLUE, or exactly one each of RED, GREEN, BLUE.
C1_ExactlyOneEach ==
    /\ (FormatCall /\ ArgCount("w") = 0 /\ Accepted) =>
          (ArgCount("r") = 1 /\ ArgCount("g") = 1 /\ ArgCount("b") = 1)
    /\ \/ /\ TagCount(bw.color_format, "WHITE") = 1
          /\ \A tag \in {"RED", "GREEN", "BLUE"} : TagCount(bw.color_format, tag) = 0
       \/ \A tag \in {"RED", "GREEN", "BLUE"} : TagCount(bw.color_format, tag) = 1

\* C1 amended: a string without 'w' is accepted only if 'r', 'g' and 'b' occur
\* at most once each and at least one of them occurs; the stored format has
\* exactly one WHITE and no RED, GREEN, BLUE, or no WHITE, at most one each of
\* RED, GREEN, BLUE and at least one of them.
C1_AtMostOneEach ==
    /\ (FormatCall /\ ArgCount("w") = 0 /\ Accepted) =>
          /\ ArgCount("r") <= 1 /\ ArgCount("g") <= 1 /\ ArgCount("b") <= 1
          /\ ArgCount("r") + ArgCount("g") + ArgCount("b") >= 1
    /\ \/ /\ TagCount(bw.color_format, "WHITE") = 1
          /\ \A tag \in {"RED", "GREEN", "BLUE"} : TagCount(bw.color_format, tag) = 0
       \/ /\ TagCount(bw.color_format, "WHITE") = 0
          /\ \A tag \in {"RED", "GREEN", "BLUE"} : TagCount(bw.color_format, tag) <= 1
          /\ \E tag \in {"RED", "GREEN", "BLUE"} : TagCount(bw.color_format, tag) = 1

\* set_color_format has stored a format given with one 'r', 'g', 'b' and an 'x'
C1_Witness ==
    /\ ret.op = "set_color_format" /\ ret.raised = ""
    /\ ArgCount("w") = 0 /\ ArgCount("x") = 1
    /\ ArgCount("r") = 1 /\ ArgCount("g") = 1 /\ ArgCount("b") = 1
    /\ Len(bw.color_format) = 4

\* C2: a string with at least one 'w' is accepted only if it has no 'r', 'g',
\* 'b' and exactly one 'w'; one made of exactly one 'w' and otherwise only
\* 'x' is accepted, and parsed with mode GRAYSCALE.
C2_WhiteMode ==
    (FormatCall /\ ArgCount("w") >= 1) =>
        /\ Accepted =>
              /\ ArgCount("r") = 0 /\ ArgCount("g") = 0 /\ ArgCount("b") = 0
              /\ ArgCount("w") = 1
        /\ (ArgCount("w") = 1 /\ ArgCount("w") + ArgCount("x") = Len(ret.arg)) =>
              /\ Accepted
              /\ ret.op = "parse_color_format" => ret.value.color_mode = "GRAYSCALE"

\* an upper-case 'W' among two 'x' has been parsed
C2_Witness ==
    /\ ret.op = "parse_color_format" /\ ret.value.is_valid
    /\ ArgCount("w") = 1 /\ ArgCount("x") = 2 /\ Len(ret.arg) = 3
    /\ \E i \in DOMAIN ret.arg : ret.arg[i] = "W"

\* a character outside r, g, b, w, x (either case)
Foreign(c) == LowerChar(c) \notin {"r", "g", "b", "w", "x"}

\* position i of the string passed is leading or trailing whitespace
Outer(i) ==
    /\ IsSpace(ret.arg[i])
    /\ \/ \A j \in 1 .. i : IsSpace(ret.arg[j])
       \/ \A j \in i .. Len(ret.arg) : IsSpace(ret.arg[j])

\* C3 as stated: a string with a character outside the alphabet anywhere in
\* it is never accepted.
C3_RejectsForeign ==
    (FormatCall /\ \E i \in DOMAIN ret.arg : Foreign(ret.arg[i])) => ~Accepted

\* C3 amended: a string with a character outside the alphabet that is not
\* part of its leading or trailing whitespace is never accepted.
C3_RejectsForeignInside ==
    (FormatCall /\ \E i \in DOMAIN ret.arg : Foreign(ret.arg[i]) /\ ~Outer(i))
        => ~Accepted

\* set_color_format has raised for a string whose last character is foreign
\* and whose other characters make a valid format
C3_Witness ==
    /\ ret.op = "set_color_format" /\ ret.raised = "ValueError"
    /\ Len(ret.arg) = 4 /\ ret.arg[4] = "q"
    /\ ArgCount("r") = 1 /\ ArgCount("g") = 1 /\ ArgCount("b") = 1

\* C4: the string get_color_format_string returns after set_color_format(s)
\* parses to the result s parses to: tag list, byte counts and mode.
C4_RoundTrip ==
    ret.op = "get_color_format_string" =>
        parse_color_format(ret.value) = parse_color_format(ret.after)

\* the round trip of a string that its serialization differs from
C4_Witness ==
    /\ ret.op = "get_color_format_string"
    /\ ret.value # ret.after
    /\ Len(ret.value) = 3
    /\ \E i \in DOMAIN ret.value : ret.value[i] = "x"

\* C5: on a successful parse used_color_bytes is the number of r, g, b and w
\* tags, unused_color_bytes the number of x tags, color_bytes their sum and
\* the length of the tag list, which is at least 1.
C5_ByteCounts ==
    (ret.op = "parse_color_format" /\ ret.value.is_valid) =>
        LET v == ret.value
        IN  /\ v.used_color_bytes =
                  Cardinality({i \in DOMAIN v.color_format :
                                   v.color_format[i] # "UNUSED"})
            /\ v.unused_color_bytes = TagCount(v.color_format, "UNUSED")
            /\ v.color_bytes = v.used_color_bytes + v.unused_color_bytes
            /\ v.color_bytes = Len(v.color_format)
            /\ v.color_bytes >= 1

\* a grayscale format with unused bytes has been parsed
C5_Witness ==
    /\ ret.op = "parse_color_format" /\ ret.value.is_valid
    /\ ret.value.used_color_bytes = 1
    /\ ret.value.unused_color_bytes = 2
    /\ ret.value.color_mode = "GRAYSCALE"

-----------------------------------------------------------------------------
(* Claims about get_frame_bytestring, checked under SpecFrame *)

\* get_frame_bytestring has returned a frame
FrameCall == ret.op = "get_frame_bytestring" /\ ret.raised = ""

\* the address the frame starts at
FrameStart == get_address(bw, ret.arg).value

Pixels == bw.width * bw.height

\* the byte at 0-based offset a of the source extended with zero bytes
ZeroExtended(a) ==
    IF a < Len(Val(bw.bytes)) THEN Val(bw.bytes)[a + 1] ELSE 0

\* the tag that fills channel ch (1 = R, 2 = G, 3 = B) in RGB mode
ChannelTag(ch) == <<"RED", "GREEN", "BLUE">>[ch]

\* channel ch of pixel k (0-based) of the frame made from the zero-extended
\* source: the byte its tag (or WHITE) designates, 0 without such a tag
ZeroExtendedChannel(k, ch) ==
    LET at == {j \in DOMAIN bw.color_format :
                   bw.color_format[j] \in {ChannelTag(ch), "WHITE"}}
    IN  IF at = {} THEN 0
        ELSE ZeroExtended(FrameStart + k * bw.color_bytes + (CHOOSE j \in at : TRUE) - 1)

\* C6: the frame is the one made from the source extended with zero bytes: a
\* read past the end gives 0 in the channel and pixel its tag designates,
\* and the bytes read in range keep their channel.
C6_ZeroExtendedFrame ==
    FrameCall =>
        ret.value = [n \in 1 .. Pixels * 3 |->
                        ZeroExtendedChannel((n - 1) \div 3, ((n - 1) % 3) + 1)]

\* C7: the frame returned has exactly width * height * 3 bytes, whatever the
\* source and the address, addresses at or past the end of it included.
C7_FrameLength ==
    FrameCall => Len(ret.value) = bw.width * bw.height * 3

\* a frame that starts at the end of a source that is not empty
C7_Witness ==
    /\ FrameCall
    /\ Val(bw.total_bytes) > 0
    /\ FrameStart >= Val(bw.total_bytes)

\* the frame lies entirely inside the source
FrameInside == FrameStart + Pixels * bw.color_bytes <= Val(bw.total_bytes)

\* C8: in a frame entirely inside the source, pixel k takes its channels from
\* the color_bytes bytes at address + k * color_bytes: the byte at a RED tag
\* is R, at GREEN G, at BLUE B, the byte at a WHITE tag is R, G and B, and an
\* UNUSED byte is skipped.
C8_PixelFromTags ==
    (FrameCall /\ FrameInside) =>
        \A k \in 0 .. Pixels - 1 : \A j \in DOMAIN bw.color_format :
            LET byte == Val(bw.bytes)[FrameStart + k * bw.color_bytes + j]
                tag == bw.color_format[j]
            IN  /\ tag = "RED" => ret.value[3 * k + 1] = byte
                /\ tag = "GREEN" => ret.value[3 * k + 2] = byte
                /\ tag = "BLUE" => ret.value[3 * k + 3] = byte
                /\ tag = "WHITE" => /\ ret.value[3 * k + 1] = byte
                                    /\ ret.value[3 * k + 2] = byte
                                    /\ ret.value[3 * k + 3] = byte

\* a frame inside the source, not at its start, made with an UNUSED byte
\* before the byte of a channel
C8_Witness ==
    /\ FrameCall /\ FrameInside
    /\ FrameStart > 0
    /\ bw.color_format[1] = "UNUSED"

-----------------------------------------------------------------------------
(* Claims about get_address, checked under SpecAddr *)

\* get_address has been called on the 16-byte source with width 4 and "rgbx"
Scenario16 ==
    /\ ret.op = "get_address"
    /\ bw.total_bytes = Some(16)
    /\ bw.width = 4
    /\ bw.color_format = <<"RED", "GREEN", "BLUE", "UNUSED">>

\* C9 as stated: in the scenario total_blocks is 1 and every timestamp before
\* audio_length_ms maps to address 0.
C9_AllToZero ==
    (Scenario16 /\ ret.arg < Val(bw.audio_length_ms)) =>
        /\ TotalBlocks(16, bw.width * bw.color_bytes) = 1
        /\ ret.raised = ""
        /\ ret.value = 0

\* C9 amended: in the scenario total_blocks is 1, every timestamp up to half
\* of audio_length_ms maps to address 0 and every later one to 16.
C9_FirstHalfToZero ==
    Scenario16 =>
        /\ TotalBlocks(16, bw.width * bw.color_bytes) = 1
        /\ ret.raised = ""
        /\ 2 * ret.arg <= Val(bw.audio_length_ms) => ret.value = 0
        /\ 2 * ret.arg > Val(bw.audio_length_ms) => ret.value = 16

\* the timestamp at exactly half of an audio length of 16 ms
C9_Witness ==
    /\ Scenario16
    /\ bw.audio_length_ms = Some(16)
    /\ ret.arg = 8
    /\ ret.value = 0

\* C10: on a loaded source get_address(audio_length_ms) returns
\* ceil(total_bytes / (width * color_bytes)) * (width * color_bytes).
C10_AddressAtEnd ==
    (/\ ret.op = "get_address"
     /\ bw.filename # None
     /\ bw.audio_length_ms # None
     /\ ret.arg = Val(bw.audio_length_ms)) =>
        /\ ret.raised = ""
        /\ ret.value = CeilDiv(Val(bw.total_bytes), bw.width * bw.color_bytes)
                           * (bw.width * bw.color_bytes)

\* the same for the sources whose audio lasts at least 1 ms
AddressAtEndOfAudio ==
    (/\ ret.op = "get_address"
     /\ bw.filename # None
     /\ bw.audio_length_ms # None
     /\ Val(bw.audio_length_ms) > 0
     /\ ret.arg = Val(bw.audio_length_ms)) =>
        /\ ret.raised = ""
        /\ ret.value = CeilDiv(Val(bw.total_bytes), bw.width * bw.color_bytes)
                           * (bw.width * bw.color_bytes)

-----------------------------------------------------------------------------
(* Renderer.get_frame_count *)

\* the count rounded down
FrameCountTruncated(length_ms, fps) == (length_ms * fps) \div 1000

\* round(audio_duration * fps): half-even rounding of length_ms * fps / 1000
FrameCountOf(length_ms, fps) == RoundHalfEven(length_ms * fps, 1000)

\* get_frame_count(fps): the length is read again from the audio artifact;
\* pydub fails on the path None and on a path that is no file
get_frame_count(self, d, fps) ==
    IF self.audio_filename = None
    THEN [raised |-> "AttributeError", value |-> 0]
    ELSE IF Val(self.audio_filename) \notin DOMAIN d
    THEN [raised |-> "FileNotFoundError", value |-> 0]
    ELSE [raised |-> "",
          value |-> FrameCountOf(get_audio_length(d[Val(self.audio_filename)]), fps)]

GetFrameCount(fps) ==
    /\ ret = Idle /\ job = NoJob
    /\ LET r == get_frame_count(bw, disk, fps)
       IN  ret' = [op |-> "get_frame_count", arg |-> fps, raised |-> r.raised,
                   value |-> r.value]
    /\ UNCHANGED <<bw, disk, fmt_in, fs, job, progress_dialog>>

-----------------------------------------------------------------------------
(* Images and Renderer.export_frame. An image is its size, its RGB bytes   *)
(* row by row from the top, and whether the watermark has been laid over   *)
(* it. A path outside temp_dir is a directory, a sequence of directory     *)
(* names, or a file: a directory and a file name, a Python str.            *)

\* Image.new(mode, size, "#000")
BlackImage(size) ==
    [size |-> size, data |-> [k \in 1 .. size[1] * size[2] * 3 |-> 0],
     watermark |-> FALSE]

\* ImageOps.flip: the rows in reverse order
FlipRows(data, width, height) ==
    [k \in 1 .. width * height * 3 |->
        data[(height - 1 - ((k - 1) \div (3 * width))) * 3 * width
                 + ((k - 1) % (3 * width)) + 1]]

\* get_frame_image(ms), flip = True
get_frame_image(self, ms) ==
    LET r == get_frame_bytestring(self, ms)
    IN  IF r.raised # "" THEN [raised |-> r.raised, image |-> BlackImage(<<0, 0>>)]
        ELSE [raised |-> "",
              image |-> [size |-> <<self.width, self.height>>,
                         data |-> FlipRows(r.value, self.width, self.height),
                         watermark |-> FALSE]]

get_size_for_fit_frame(content_size, frame_size) ==
    LET content_width == content_size[1]
        content_height == content_size[2]
        frame_width == frame_size[1]
        frame_height == frame_size[2]
        height_if_limit_width ==
            RoundHalfEven(frame_width * content_height, content_width)
        width_if_limit_height ==
            RoundHalfEven(frame_height * content_width, content_height)
        limit_width == ~(height_if_limit_width > frame_height)
    IN  [size |-> IF limit_width THEN <<frame_width, height_if_limit_width>>
                  ELSE <<width_if_limit_height, frame_height>>,
         limit_width |-> limit_width]

\* image.resize(size, Image.NEAREST): output pixel (x, y) is the input pixel
\* under its centre
ResizeNearest(image, size) ==
    LET src_w == image.size[1]
        src_h == image.size[2]
        SrcX(x) == ((2 * x + 1) * src_w) \div (2 * size[1])
        SrcY(y) == ((2 * y + 1) * src_h) \div (2 * size[2])
    IN  [image EXCEPT
            !.size = size,
            !.data = [k \in 1 .. size[1] * size[2] * 3 |->
                LET y == (k - 1) \div (3 * size[1])
                    x == ((k - 1) % (3 * size[1])) \div 3
                    ch == (k - 1) % 3
                IN  image.data[(SrcY(y) * src_w + SrcX(x)) * 3 + ch + 1]]]

\* background.paste(content, (paste_x, paste_y), content), content opaque
Paste(background, content, paste_x, paste_y) ==
    [background EXCEPT
        !.data = [k \in 1 .. background.size[1] * background.size[2] * 3 |->
            LET y == (k - 1) \div (3 * background.size[1])
                x == ((k - 1) % (3 * background.size[1])) \div 3
                ch == (k - 1) % 3
                cx == x - paste_x
                cy == y - paste_y
            IN  IF /\ cx >= 0 /\ cx < content.size[1]
                   /\ cy >= 0 /\ cy < content.size[2]
                THEN content.data[(cy * content.size[1] + cx) * 3 + ch + 1]
                ELSE background.data[k]],
        !.watermark = content.watermark]

\* fit_to_frame(image, frame_size, Image.NEAREST, transparent = False);
\* PIL refuses to resize to a width or height of 0
fit_to_frame(image, frame_size) ==
    LET fit_settings == get_size_for_fit_frame(image.size, frame_size)
        content_size == fit_settings.size
        paste_x == IF fit_settings.limit_width THEN 0
                   ELSE RoundHalfEven(frame_size[1] - content_size[1], 2)
        paste_y == IF fit_settings.limit_width
                   THEN RoundHalfEven(frame_size[2] - content_size[2], 2)
                   ELSE 0
    IN  IF content_size[1] = 0 \/ content_size[2] = 0
        THEN [raised |-> "ValueError", image |-> image]
        ELSE [raised |-> "",
              image |-> Paste(BlackImage(frame_size),
                              ResizeNearest(image, content_size),
                              paste_x, paste_y)]

\* Watermarker.mark
mark(image) == [image EXCEPT !.watermark = TRUE]

\* os.makedirs(directory, exist_ok = True): the directory and those above it
makedirs(f, directory) ==
    [f EXCEPT !.dirs = @ \cup {SubSeq(directory, 1, n) : n \in 1 .. Len(directory)}]

\* a file written, or written over
WriteFile(f, path, content) ==
    [f EXCEPT !.files = [q \in (DOMAIN @) \cup {path} |->
                            IF q = path THEN content ELSE @[q]]]

\* the frame of the source asked for, loaded or not
render_frame_no_check(self, ms, size, keep_aspect, watermark) ==
    LET source == get_frame_image(self, ms)
        resized == IF source.raised # "" THEN source
                   ELSE IF size = None THEN source
                   ELSE fit_to_frame(source.image, Val(size))
    IN  IF resized.raised # "" THEN resized
        ELSE [raised |-> "",
              image |-> IF watermark THEN mark(resized.image) ELSE resized.image]

\* the image export_frame renders: black without a source; keep_aspect is
\* not used
render_frame(self, ms, size, keep_aspect, watermark) ==
    LET source == IF self.audio_filename = None
                  THEN [raised |-> "",
                        image |-> BlackImage(<<self.width, self.height>>)]
                  ELSE get_frame_image(self, ms)
        resized == IF source.raised # "" THEN source
                   ELSE IF size = None THEN source
                   ELSE fit_to_frame(source.image, Val(size))
    IN  IF resized.raised # "" THEN resized
        ELSE [raised |-> "",
              image |-> IF watermark THEN mark(resized.image) ELSE resized.image]

\* make_file_path: the directory part of the path made; os.makedirs fails
\* on the empty path a bare name has for directory
make_file_path(f, file_path) ==
    IF file_path = <<>> THEN [raised |-> "FileNotFoundError", fs |-> f]
    ELSE [raised |-> "", fs |-> makedirs(f, file_path)]

\* export_frame: make_file_path, then the image rendered and saved
export_frame(self, f, ms, filename, size, keep_aspect, watermark) ==
    LET m == make_file_path(f, filename.dir)
        r == render_frame(self, ms, size, keep_aspect, watermark)
    IN  IF m.raised # "" THEN m
        ELSE IF r.raised # "" THEN [raised |-> r.raised, fs |-> m.fs]
        ELSE [raised |-> "", fs |-> WriteFile(m.fs, filename, r.image)]

\* export_audio to a .wav path: the artifact copied
export_audio(self, d, f, filename) ==
    LET m == make_file_path(f, filename.dir)
    IN  IF m.raised # "" THEN m
        ELSE IF self.audio_filename = None
        THEN [raised |-> "TypeError", fs |-> m.fs]
        ELSE IF Val(self.audio_filename) \notin DOMAIN d
        THEN [raised |-> "FileNotFoundError", fs |-> m.fs]
        ELSE [raised |-> "",
              fs |-> WriteFile(m.fs, filename, d[Val(self.audio_filename)])]

\* export_frame(ms, filename, size, keep_aspect, watermark)
ExportFrame(ms, filename, size, keep_aspect, watermark) ==
    /\ ret = Idle /\ job = NoJob
    /\ LET r == export_frame(bw, fs, ms, filename, size, keep_aspect, watermark)
       IN  /\ fs' = r.fs
           /\ ret' = [op |-> "export_frame", arg |-> ms, filename |-> filename,
                      size |-> size, keep_aspect |-> keep_aspect,
                      watermark |-> watermark, raised |-> r.raised]
    /\ UNCHANGED <<bw, disk, fmt_in, job, progress_dialog>>

-----------------------------------------------------------------------------
(* Renderer.export_sequence and Renderer.export_video. The call that is    *)
(* running is the record `job`: its arguments and locals, its position pc  *)
(* ("pool": the frames are being rendered, "mux": the audio is exported,   *)
(* "muxed": the video is written), the next frame the pool hands to a      *)
(* worker, the frames the workers are rendering and, for every frame       *)
(* rendered, the timestamps it was rendered at. The caller's thread runs   *)
(* from one position to the next without interruption; the workers and the *)
(* user at the progress dialog run beside it.                              *)

ImageFormatCode ==
    [JPEG |-> <<".", "j", "p", "g">>,
     PNG |-> <<".", "p", "n", "g">>,
     BITMAP |-> <<".", "b", "m", "p">>]

DecimalDigits == <<"0", "1", "2", "3", "4", "5", "6", "7", "8", "9">>

\* str(n), n >= 0
RECURSIVE str(_)
str(n) ==
    IF n < 10 THEN <<DecimalDigits[n + 1]>>
    ELSE str(n \div 10) \o <<DecimalDigits[(n % 10) + 1]>>

\* the string as it is, no fill
NoFill(s, width, fillchar) == s

\* s.rjust(width, fillchar)
rjust(s, width, fillchar) ==
    IF Len(s) >= width THEN s
    ELSE [k \in 1 .. width - Len(s) |-> fillchar] \o s

\* the timestamp cut to the millisecond below
FrameMsTruncated(frame, fps) == (frame * 1000) \div fps

\* frame_ms = round((frame / fps) * 1000)
FrameMs(frame, fps) == RoundHalfEven(frame * 1000, fps)

\* frame_filename
FrameFilename(frame, image_format, frame_number_digits, directory) ==
    [dir |-> directory,
     name |-> rjust(str(frame), frame_number_digits, "0")
                  \o ImageFormatCode[image_format]]

process_frame(self, f, frame, image_format, frame_number_digits, directory, fps, size, keep_aspect, watermark) ==
    export_frame(self, f, FrameMs(frame, fps),
                 FrameFilename(frame, image_format, frame_number_digits, directory),
                 size, keep_aspect, watermark)

\* the directory above a directory
Parent(directory) == SubSeq(directory, 1, Len(directory) - 1)

IsPrefix(p, q) == Len(p) <= Len(q) /\ SubSeq(q, 1, Len(p)) = p

\* the directory left where it is
KeepTree(f, directory) == f

\* shutil.rmtree(directory)
rmtree(f, directory) ==
    [f EXCEPT !.dirs = {q \in @ : ~IsPrefix(directory, q)},
              !.files = [q \in {x \in DOMAIN @ : ~IsPrefix(directory, x.dir)} |-> @[q]]]

\* the names tempfile.mkdtemp gives, in turn
ScratchNames == <<"tmp1", "tmp2", "tmp3", "tmp4">>

\* tempfile.mkdtemp()
mkdtemp(f) ==
    LET temp_dir == <<ScratchNames[f.made + 1]>>
    IN  [temp_dir |-> temp_dir,
         fs |-> [f EXCEPT !.made = @ + 1, !.dirs = @ \cup {temp_dir}]]

\* os.listdir(directory): the names of the files in it
ListDir(f, directory) == {q \in DOMAIN f.files : q.dir = directory}

\* the orders a listing can come in
Orders(S) ==
    {o \in [1 .. Cardinality(S) -> S] :
        \A a, b \in 1 .. Cardinality(S) : o[a] = o[b] => a = b}

\* progress_dialog.setValue(value), when a dialog was given
setValue(dialog, value) ==
    IF dialog = None THEN None ELSE Some([Val(dialog) EXCEPT !.value = value])

wasCanceled(dialog) == dialog # None /\ Val(dialog).wasCanceled

\* the dialog the caller makes for a call, or none
NewDialog(with_dialog) ==
    IF with_dialog THEN Some([wasCanceled |-> FALSE, value |-> 0]) ELSE None

\* export_sequence up to the start of the pool: make_file_path of the
\* directory (the directory above it is made), the frame count and the digits
export_sequence_begin(self, d, f, directory, fps) ==
    LET m == make_file_path(f, Parent(directory))
        c == get_frame_count(self, d, fps)
    IN  IF m.raised # ""
        THEN [raised |-> m.raised, fs |-> m.fs, frame_count |-> 0,
              frame_number_digits |-> 0]
        ELSE [raised |-> c.raised, fs |-> m.fs, frame_count |-> c.value,
              frame_number_digits |-> Len(str(c.value))]

\* the record of a call at the start of its pool
NewJob(op, b, directory, fps, size, keep_aspect, format, watermark, temp_dir, filename) ==
    [op |-> op,
     pc |-> IF b.raised = "" THEN "pool" ELSE "raised",
     directory |-> directory, fps |-> fps, size |-> size,
     keep_aspect |-> keep_aspect,
     format |-> IF format = None THEN "PNG" ELSE Val(format),
     watermark |-> watermark,
     frame_count |-> b.frame_count,
     frame_number_digits |-> b.frame_number_digits,
     next |-> 0, running |-> {}, renders |-> <<>>,
     temp_dir |-> temp_dir, filename |-> filename]

\* a call ends: its outcome and its record go to the caller
EndJob(j, raised) ==
    /\ ret' = [op |-> j.op, raised |-> raised, job |-> j]
    /\ job' = NoJob

\* export_sequence(directory, fps, size, keep_aspect, format, watermark,
\* progress_dialog) up to the start of the pool
ExportSequence(directory, fps, size, keep_aspect, format, watermark, with_dialog) ==
    /\ ret = Idle /\ job = NoJob
    /\ LET b == export_sequence_begin(bw, disk, fs, directory, fps)
           j == NewJob("export_sequence", b, directory, fps, size, keep_aspect,
                       format, watermark, <<>>, [dir |-> <<>>, name |-> <<>>])
       IN  /\ fs' = b.fs
           /\ IF b.raised # ""
              THEN /\ EndJob(j, b.raised)
                   /\ progress_dialog' = NewDialog(with_dialog)
              ELSE /\ job' = j
                   /\ progress_dialog' = setValue(NewDialog(with_dialog), 0)
                   /\ UNCHANGED ret
    /\ UNCHANGED <<bw, disk, fmt_in>>

\* export_video(filename, fps, size, keep_aspect, watermark, progress_dialog)
\* up to the start of the pool of its export_sequence
ExportVideo(filename, fps, size, keep_aspect, watermark, with_dialog) ==
    /\ ret = Idle /\ job = NoJob
    /\ fs.made < MaxScratch
    /\ LET t == mkdtemp(fs)
           image_dir == t.temp_dir \o <<"images">>
           b == export_sequence_begin(bw, disk, t.fs, image_dir, fps)
           j == NewJob("export_video", b, image_dir, fps, size, keep_aspect,
                       Some("PNG"), watermark, t.temp_dir, filename)
       IN  /\ fs' = b.fs
           /\ IF b.raised # ""
              THEN /\ EndJob(j, b.raised)
                   /\ progress_dialog' = NewDialog(with_dialog)
              ELSE /\ job' = j
                   /\ progress_dialog' = setValue(NewDialog(with_dialog), 0)
                   /\ UNCHANGED ret
    /\ UNCHANGED <<bw, disk, fmt_in>>

\* the pool hands the next frame to a free worker
TaskStart ==
    /\ job.pc = "pool"
    /\ job.next < job.frame_count
    /\ Cardinality(job.running) < PoolSize
    /\ job' = [job EXCEPT !.running = @ \cup {job.next}, !.next = @ + 1]
    /\ UNCHANGED <<bw, disk, fmt_in, ret, fs, progress_dialog>>

\* renders with one more rendering of `frame`, at ms
Rendered(renders, frame, ms) ==
    [i \in (DOMAIN renders) \cup {frame} |->
        IF i # frame THEN renders[i]
        ELSE IF frame \in DOMAIN renders THEN Append(renders[frame], ms)
        ELSE <<ms>>]

\* a worker finishes process_frame(frame, ...); a frame that raises ends the
\* starmap and the call
TaskDone(frame) ==
    /\ job.pc = "pool"
    /\ frame \in job.running
    /\ LET r == process_frame(bw, fs, frame, job.format, job.frame_number_digits,
                              job.directory, job.fps, job.size, job.keep_aspect,
                              job.watermark)
           j == [job EXCEPT !.running = @ \ {frame},
                            !.renders = Rendered(@, frame, FrameMs(frame, job.fps))]
       IN  /\ fs' = r.fs
           /\ IF r.raised # ""
              THEN EndJob([job EXCEPT !.pc = "raised"], r.raised)
              ELSE job' = j /\ UNCHANGED ret
    /\ UNCHANGED <<bw, disk, fmt_in, progress_dialog>>

\* the frames the workers are rendering
RunningFrames == IF job.pc = "pool" THEN job.running ELSE {}

\* every frame was handed out, done or not
PoolDrained ==
    /\ job.pc = "pool"
    /\ job.next = job.frame_count

\* starmap has returned: every frame was handed out and is done
PoolFinished ==
    /\ job.pc = "pool"
    /\ job.next = job.frame_count
    /\ job.running = {}

\* export_sequence after the pool
ExportSequenceReturn ==
    /\ job.op = "export_sequence"
    /\ PoolFinished
    /\ progress_dialog' = setValue(progress_dialog, job.frame_count)
    /\ EndJob(job, "")
    /\ UNCHANGED <<bw, disk, fmt_in, fs>>

\* os.path.splitext(name)[1]: the name from its last dot on, none without
splitext(name) ==
    LET dots == {k \in DOMAIN name : name[k] = "."}
    IN  IF dots = {} THEN <<>>
        ELSE SubSeq(name, CHOOSE k \in dots : \A l \in dots : l <= k, Len(name))

\* the files of the scratch directory of job j
AudioFile(j) == [dir |-> j.temp_dir, name |-> <<"a", "u", "d", "i", "o", ".", "w", "a", "v">>]
VideoFile(j) == [dir |-> j.temp_dir,
                 name |-> <<"v", "i", "d", "e", "o">> \o splitext(j.filename.name)]

\* export_video after export_sequence: the first wasCanceled test, then
\* export_audio
ExportVideoAudio ==
    /\ job.op = "export_video"
    /\ PoolFinished
    /\ LET dialog == setValue(progress_dialog, job.frame_count)
           a == export_audio(bw, disk, fs, AudioFile(job))
       IN  /\ progress_dialog' = dialog
           /\ IF wasCanceled(dialog)
              THEN /\ fs' = rmtree(fs, job.temp_dir)
                   /\ EndJob(job, "")
              ELSE /\ fs' = a.fs
                   /\ IF a.raised # ""
                      THEN EndJob([job EXCEPT !.pc = "raised"], a.raised)
                      ELSE job' = [job EXCEPT !.pc = "mux"] /\ UNCHANGED ret
    /\ UNCHANGED <<bw, disk, fmt_in>>

\* export_video: the frame files listed, in the order os.listdir gives them,
\* and the video written from them and the audio; the logger sets the
\* progress to 100
ExportVideoMux ==
    /\ job.pc = "mux"
    /\ IF job.directory \notin fs.dirs
       THEN /\ EndJob([job EXCEPT !.pc = "raised"], "FileNotFoundError")
            /\ UNCHANGED <<fs, progress_dialog>>
       ELSE \E frames_list \in Orders(ListDir(fs, job.directory)) :
               /\ fs' = WriteFile(fs, VideoFile(job),
                                  [frames |-> [k \in DOMAIN frames_list |->
                                                  fs.files[frames_list[k]]],
                                   audio |-> fs.files[AudioFile(job)],
                                   fps |-> job.fps])
               /\ progress_dialog' = setValue(progress_dialog, 100)
               /\ job' = [job EXCEPT !.pc = "muxed"]
               /\ UNCHANGED ret
    /\ UNCHANGED <<bw, disk, fmt_in>>

\* shutil.move(src, dst)
MoveFile(f, src, dst) ==
    LET moved == WriteFile(f, dst, f.files[src])
    IN  [moved EXCEPT !.files = [q \in (DOMAIN @) \ {src} |-> @[q]]]

\* export_video after the video is written: the second wasCanceled test,
\* then the move to the destination and the removal of the scratch directory
ExportVideoFinish ==
    /\ job.pc = "muxed"
    /\ IF wasCanceled(progress_dialog)
       THEN /\ fs' = rmtree(fs, job.temp_dir)
            /\ EndJob(job, "")
            /\ UNCHANGED progress_dialog
       ELSE LET m == make_file_path(fs, job.filename.dir)
            IN  IF m.raised # ""
                THEN /\ fs' = m.fs
                     /\ EndJob([job EXCEPT !.pc = "raised"], m.raised)
                     /\ progress_dialog' = setValue(progress_dialog, 0)
                ELSE /\ fs' = rmtree(MoveFile(m.fs, VideoFile(job), job.filename),
                                     job.temp_dir)
                     /\ EndJob([job EXCEPT !.pc = "moved"], "")
                     /\ progress_dialog' = setValue(progress_dialog, 100)
    /\ UNCHANGED <<bw, disk, fmt_in>>

\* the user presses Abort on the progress dialog of the running call
Cancel ==
    /\ job # NoJob
    /\ progress_dialog # None
    /\ ~wasCanceled(progress_dialog)
    /\ progress_dialog' = Some([Val(progress_dialog) EXCEPT !.wasCanceled = TRUE])
    /\ UNCHANGED <<bw, disk, fmt_in, ret, fs, job>>

-----------------------------------------------------------------------------
(* SpecSequence and SpecVideo: export_sequence calls and export_video       *)
(* calls, with and without a progress dialog and with the user pressing    *)
(* Abort at any moment of a call, on an object built without a source or   *)
(* with one of at most MaxExportLen bytes. The audio is five 8-bit mono    *)
(* samples a second, so that a few bytes make a few frames.                *)

ExportSampleRate == 5
ExportWidth == 4
ExportHeight == 4

ExportSourceArgs == {None} \cup {Some(f) : f \in 0 .. MaxExportLen}

\* the directory the sequence is exported to, the file the video is moved to
OutDir == <<"home", "out">>
Destination == [dir |-> <<"home", "videos">>,
                name |-> <<"o", "u", "t", ".", "m", "p", "4">>]

\* frames per second of a sequence: 11 puts timestamps between milliseconds
\* and makes more than 10 frames of the longest source
SequenceFpsArgs == {11}
\* frames per second of a video: 1 makes no frame of a source of one byte
VideoFpsArgs == {1, 3}

\* a file that was at the destination before
OldVideo == [frames |-> <<>>, audio |-> <<>>, fps |-> 0]

\* a frame an earlier, longer export left in the directory of the sequence
OldFrame == [dir |-> OutDir, name |-> <<"1", "1", ".", "p", "n", "g">>]
OldImage == BlackImage(<<2, 2>>)

\* the files outside temp_dir before the first call: none, or the old ones
OldFiles ==
    WriteFile(WriteFile(makedirs(makedirs(NoFiles, Destination.dir), OutDir),
                        Destination, OldVideo),
              OldFrame, OldImage)

InitExport ==
    /\ \E filename \in ExportSourceArgs :
          LET r == construct(filename, ExportWidth, ExportHeight,
                             DefaultColorFormat, DefaultNumChannels,
                             DefaultSampleBytes, ExportSampleRate, DefaultVolume)
          IN  /\ r.raised = ""
              /\ bw = r.self
              /\ disk = r.disk
    /\ fmt_in = <<>>
    /\ ret = Idle
    /\ fs \in {NoFiles, OldFiles}
    /\ job = NoJob
    /\ progress_dialog = None

NextSequence ==
    \/ \E fps \in SequenceFpsArgs, with_dialog \in BOOLEAN :
          ExportSequence(OutDir, fps, None, FALSE, None, FALSE, with_dialog)
    \/ TaskStart
    \/ \E frame \in RunningFrames : TaskDone(frame)
    \/ ExportSequenceReturn
    \/ Cancel
    \/ Return

SpecSequence == InitExport /\ [][NextSequence]_vars

NextVideo ==
    \/ \E fps \in VideoFpsArgs, with_dialog \in BOOLEAN :
          ExportVideo(Destination, fps, None, FALSE, FALSE, with_dialog)
    \/ TaskStart
    \/ \E frame \in RunningFrames : TaskDone(frame)
    \/ ExportVideoAudio
    \/ ExportVideoMux
    \/ ExportVideoFinish
    \/ Cancel
    \/ Return

SpecVideo == InitExport /\ [][NextVideo]_vars

-----------------------------------------------------------------------------
(* Claims about export_sequence, checked under SpecSequence *)

\* the powers of ten, from 10^0
Pow10 == <<1, 10, 100, 1000>>

\* the number of decimal digits of n, 0 <= n < 1000
Width(n) == CHOOSE w \in 1 .. 3 : n < Pow10[w + 1] /\ (w = 1 \/ n >= Pow10[w])

\* i written in w decimal digits, zeros in front
PaddedNumber(i, w) ==
    [k \in 1 .. w |-> DecimalDigits[((i \div Pow10[w - k + 1]) % 10) + 1]]

\* t is the integer nearest to 1000 * i / fps, the even one of two
NearestMs(t, i, fps) ==
    /\ 2 * (t * fps - 1000 * i) <= fps
    /\ 2 * (1000 * i - t * fps) <= fps
    /\ (2 * ((1000 * i) % fps) = fps) => t % 2 = 0

\* the file of frame i of the call j
NumberedFile(j, i) ==
    [dir |-> j.directory,
     name |-> PaddedNumber(i, Width(j.frame_count)) \o ImageFormatCode[j.format]]

\* C15: when export_sequence returns without cancellation, every frame index
\* i in [0, frame_count) has its file in the target directory, named by i
\* zero-padded to len(str(frame_count)) digits plus the format extension and
\* holding the frame rendered at round(i / fps * 1000); every index was
\* rendered once, no other index was rendered, and a file of the directory
\* that is not one of these is as it was before the call.
C15_SequenceFiles ==
    (ret.op = "export_sequence" /\ ret.raised = "" /\ ~wasCanceled(progress_dialog)) =>
        LET j == ret.job
            frames == 0 .. j.frame_count - 1
        IN  /\ DOMAIN j.renders = frames
            /\ \A i \in frames :
                  /\ NumberedFile(j, i) \in DOMAIN fs.files
                  /\ Len(j.renders[i]) = 1
                  /\ NearestMs(j.renders[i][1], i, j.fps)
                  /\ fs.files[NumberedFile(j, i)]
                        = render_frame(bw, j.renders[i][1], j.size,
                                       j.keep_aspect, j.watermark).image
            /\ \A i, k \in frames :
                  NumberedFile(j, i) = NumberedFile(j, k) => i = k
            /\ \A q \in ListDir(fs, j.directory) :
                  \/ \E i \in frames : q = NumberedFile(j, i)
                  \/ q = OldFrame /\ fs.files[q] = OldImage

\* a sequence of eleven frames returned, not cancelled, into the directory
\* that held an old frame numbered 11, the second frame rendered at 91 ms
C15_Witness ==
    /\ ret.op = "export_sequence" /\ ret.raised = ""
    /\ progress_dialog # None /\ ~wasCanceled(progress_dialog)
    /\ ret.job.frame_count = 11
    /\ ret.job.renders[1] = <<91>>
    /\ OldFrame \in DOMAIN fs.files

\* C16: once the progress dialog of a running export_sequence has been
\* cancelled, the pool hands out no further frame, and no file already
\* written is removed.
C16_CancelStopsDispatch ==
    [][(job.op = "export_sequence" /\ job.pc = "pool" /\ wasCanceled(progress_dialog)) =>
          /\ job'.pc = "pool" => job'.next = job.next
          /\ DOMAIN fs.files \subseteq DOMAIN fs'.files]_vars

\* the place of a character in the order of strings: "." before the digits,
\* the digits in their order, the letters after them
Ord(c) ==
    IF c = "." THEN 0
    ELSE IF \E n \in DOMAIN DecimalDigits : DecimalDigits[n] = c
    THEN CHOOSE n \in DOMAIN DecimalDigits : DecimalDigits[n] = c
    ELSE 11

\* a < b in the lexicographic order of strings
LexLess(a, b) ==
    \/ Len(a) < Len(b) /\ SubSeq(b, 1, Len(a)) = a
    \/ \E k \in 1 .. Len(a) :
          /\ k <= Len(b)
          /\ SubSeq(a, 1, k - 1) = SubSeq(b, 1, k - 1)
          /\ Ord(a[k]) < Ord(b[k])

\* the name process_frame gives the file of frame i of the call j
NameOfFrame(j, i) ==
    FrameFilename(i, j.format, j.frame_number_digits, j.directory).name

\* C24: within one export_sequence the file names of distinct frame indices
\* are distinct and of the same length, and their lexicographic order is the
\* order of the indices; they are the names of the files written.
C24_NamesOrdered ==
    (ret.op = "export_sequence" /\ ret.raised = "") =>
        LET j == ret.job
            frames == 0 .. j.frame_count - 1
        IN  /\ \A i \in frames :
                  [dir |-> j.directory, name |-> NameOfFrame(j, i)] \in DOMAIN fs.files
            /\ \A i, k \in frames :
                  /\ Len(NameOfFrame(j, i)) = Len(NameOfFrame(j, k))
                  /\ i # k => NameOfFrame(j, i) # NameOfFrame(j, k)
                  /\ i < k <=> LexLess(NameOfFrame(j, i), NameOfFrame(j, k))

\* eleven frames written without a dialog into an empty directory: the
\* numbers 9 and 10 differ in their digits
C24_Witness ==
    /\ ret.op = "export_sequence" /\ ret.raised = ""
    /\ progress_dialog = None
    /\ ret.job.frame_count = 11
    /\ NameOfFrame(ret.job, 9) = <<"0", "9", ".", "p", "n", "g">>
    /\ NameOfFrame(ret.job, 10) = <<"1", "0", ".", "p", "n", "g">>
    /\ Cardinality(ListDir(fs, ret.job.directory)) = 11

\* the value the progress dialog was last given
Reported(dialog) == Val(dialog).value

\* C25: the values export_sequence reports to its progress dialog start at
\* 0, never decrease, are above 0 once a frame has completed, and are
\* frame_count exactly when every frame has completed.
C25_ProgressAdvances ==
    [][/\ (job = NoJob /\ job'.op = "export_sequence" /\ progress_dialog' # None) =>
              Reported(progress_dialog') = 0
       /\ (job.op = "export_sequence" /\ progress_dialog # None) =>
              LET after == IF job' = NoJob THEN ret'.job ELSE job'
                  done == DOMAIN after.renders
              IN  /\ Reported(progress_dialog') >= Reported(progress_dialog)
                  /\ done # {} => Reported(progress_dialog') > 0
                  /\ Reported(progress_dialog') = after.frame_count
                        <=> done = 0 .. after.frame_count - 1]_vars

-----------------------------------------------------------------------------
(* Claims about export_video, checked under SpecVideo *)

\* what is at the destination path in the file system f: a file or nothing
AtDestination(f) ==
    IF Destination \in DOMAIN f.files THEN Some(f.files[Destination]) ELSE None

\* nothing of the scratch directory temp_dir is in the file system f
ScratchGone(f, temp_dir) ==
    /\ \A q \in f.dirs : ~IsPrefix(temp_dir, q)
    /\ \A q \in DOMAIN f.files : ~IsPrefix(temp_dir, q.dir)

\* C17: export_video leaves the destination path as it was while the frames
\* are rendered, and when the dialog has been cancelled by the time the
\* frames are done, the call returns from there without raising: no audio
\* was exported, no video written, the destination path is as it was before
\* the call (absent if it was absent) and the scratch directory is gone.
C17_CancelledInPhase1 ==
    [][/\ (job'.op = "export_video" /\ job'.pc = "pool") =>
              AtDestination(fs') = AtDestination(fs)
       /\ (job.op = "export_video" /\ job.pc = "pool" /\ job'.pc # "pool"
              /\ wasCanceled(progress_dialog)) =>
              /\ ret'.op = "export_video" /\ ret'.raised = ""
              /\ ret'.job.pc = "pool"
              /\ AudioFile(job) \notin DOMAIN fs.files
              /\ VideoFile(job) \notin DOMAIN fs.files
              /\ AtDestination(fs') = AtDestination(fs)
              /\ ScratchGone(fs', job.temp_dir)
              /\ \A q \in DOMAIN fs'.files :
                    q \in DOMAIN fs.files /\ fs'.files[q] = fs.files[q]]_vars

\* a video of three frames cancelled while they were rendered: the call has
\* returned, the old file is at the destination and the scratch directory
\* is gone
C17_Witness ==
    /\ ret.op = "export_video" /\ ret.raised = ""
    /\ ret.job.pc = "pool"
    /\ wasCanceled(progress_dialog)
    /\ ret.job.frame_count = 3
    /\ DOMAIN ret.job.renders = 0 .. 2
    /\ ScratchGone(fs, ret.job.temp_dir)
    /\ AtDestination(fs) = Some(OldVideo)

\* C18: whenever export_video has returned or raised, nothing of the
\* scratch directory it made is left.
C18_ScratchRemoved ==
    ret.op = "export_video" => ScratchGone(fs, ret.job.temp_dir)

\* C22: the video export_video has written holds the frames in ascending
\* index order: its frame k is the image rendered for index k, whatever
\* order the directory listing gave the files in.
C22_FramesInIndexOrder ==
    (job.op = "export_video" /\ job.pc = "muxed") =>
        LET video == fs.files[VideoFile(job)]
        IN  /\ Len(video.frames) = job.frame_count
            /\ \A k \in 0 .. job.frame_count - 1 :
                  video.frames[k + 1]
                    = render_frame(bw, FrameMs(k, job.fps), job.size,
                                   job.keep_aspect, job.watermark).image

\* C23: the phases of export_video never overlap. A frame is rendered only
\* while the pool runs; the audio file is written only when every frame has
\* been handed out and none is still being rendered; the video is written
\* only when the audio file is there; the destination path changes only when
\* the video has been written, and the video is what is moved there.
C23_PhasesInOrder ==
    [][job.op = "export_video" =>
          /\ (job'.op = "export_video" /\ job'.renders # job.renders) =>
                /\ job.pc = "pool" /\ job'.pc = "pool"
                /\ AudioFile(job) \notin DOMAIN fs'.files
                /\ VideoFile(job) \notin DOMAIN fs'.files
          /\ (AudioFile(job) \notin DOMAIN fs.files
                /\ AudioFile(job) \in DOMAIN fs'.files) =>
                /\ job.pc = "pool"
                /\ job.running = {}
                /\ job.next = job.frame_count
                /\ DOMAIN job.renders = 0 .. job.frame_count - 1
                /\ VideoFile(job) \notin DOMAIN fs'.files
          /\ (VideoFile(job) \notin DOMAIN fs.files
                /\ VideoFile(job) \in DOMAIN fs'.files) =>
                /\ job.pc = "mux"
                /\ AudioFile(job) \in DOMAIN fs.files
                /\ AtDestination(fs') = AtDestination(fs)
          /\ AtDestination(fs') # AtDestination(fs) =>
                /\ job.pc = "muxed"
                /\ VideoFile(job) \in DOMAIN fs.files
                /\ AtDestination(fs') = Some(fs.files[VideoFile(job)])]_vars

\* a video of three frames moved to the destination, its audio the artifact
C23_Witness ==
    /\ ret.op = "export_video" /\ ret.raised = ""
    /\ ret.job.pc = "moved"
    /\ ret.job.frame_count = 3
    /\ DOMAIN ret.job.renders = 0 .. 2
    /\ AtDestination(fs) # None
    /\ Len(Val(AtDestination(fs)).frames) = 3
    /\ Val(AtDestination(fs)).audio = disk[Val(bw.audio_filename)]
    /\ ScratchGone(fs, ret.job.temp_dir)

-----------------------------------------------------------------------------
(* SpecImage: export_frame on the object with and without a source, after  *)
(* any sequence of change_filename and set_dims calls.                     *)

ImageFilenameArgs == {None, Some(MissingFile), Some(0), Some(5), Some(20)}

\* the timestamps asked for, when the audio is that long
ImageMsArgs == {0, 2, 5, 20}

\* the file the frame is saved to
FramePath == [dir |-> <<"home", "pictures">>,
              name |-> <<"f", "r", "a", "m", "e", ".", "p", "n", "g">>]

\* no output size, or one larger than the geometry and of another shape
SizeArgs == {None, Some(<<8, 6>>)}

InitImage ==
    /\ \E width \in 4 .. MaxDim, height \in 4 .. MaxDim :
          LET r == construct(None, width, height, DefaultColorFormat,
                             DefaultNumChannels, DefaultSampleBytes,
                             FrameSampleRate, DefaultVolume)
          IN  /\ r.raised = ""
              /\ bw = r.self
              /\ disk = r.disk
    /\ fmt_in = <<>>
    /\ ret = Idle
    /\ fs = NoFiles
    /\ job = NoJob
    /\ progress_dialog = None

NextImage ==
    \/ \E f \in ImageFilenameArgs : ChangeFilename(f)
    \/ \E width \in DimArgs, height \in DimArgs : SetDims(width, height)
    \/ \E ms \in MsArgs(bw) \cap ImageMsArgs, size \in SizeArgs,
          keep_aspect \in BOOLEAN,
          watermark \in BOOLEAN :
          ExportFrame(ms, FramePath, size, keep_aspect, watermark)
    \/ Return

SpecImage == InitImage /\ [][NextImage]_vars

-----------------------------------------------------------------------------
(* Claims about export_frame, checked under SpecImage *)

\* the image export_frame has saved
SavedImage == fs.files[ret.filename]

SourceImage == render_frame(bw, ret.arg, None, FALSE, FALSE).image

\* pixel (x, y) of an image, its three bytes
PixelAt(image, x, y) ==
    [ch \in 1 .. 3 |-> image.data[(y * image.size[1] + x) * 3 + ch]]

\* C21: export_frame with an output size honours the aspect policy. With
\* keep_aspect false the saved image is the frame stretched over the whole
\* output size: every pixel is the pixel of the frame that lies under it.
\* With keep_aspect true it is the frame scaled with its aspect ratio kept,
\* centred, and black everywhere else.
C21_AspectPolicy ==
    (ret.op = "export_frame" /\ ret.raised = "" /\ ret.size # None) =>
        LET frame_size == Val(ret.size)
            source == SourceImage
        IN  /\ SavedImage.size = frame_size
            /\ ~ret.keep_aspect =>
                  \A x \in 0 .. frame_size[1] - 1, y \in 0 .. frame_size[2] - 1 :
                      PixelAt(SavedImage, x, y)
                        = PixelAt(source,
                                  ((2 * x + 1) * source.size[1]) \div (2 * frame_size[1]),
                                  ((2 * y + 1) * source.size[2]) \div (2 * frame_size[2]))
            /\ ret.keep_aspect =>
                  SavedImage.data = fit_to_frame(source, frame_size).image.data

-----------------------------------------------------------------------------
(* SpecAudio: the audio artifact under any sequence of change_filename and *)
(* set_audio_settings calls with valid settings, at full and at reduced    *)
(* volume, and the frame counts read from it.                              *)

AudioSampleBytesArgs == {1, 2, 3, 4}
AudioVolumeArgs == {100, 50}

\* a rate at which a source of a few frames lasts tens of milliseconds
AudioSampleRateArgs == {100}

\* the sources loaded in SpecAudio: those of at most MaxAudioLen bytes
AudioFilenameArgs ==
    {None, Some(MissingFile)} \cup {Some(f) : f \in 0 .. MaxAudioLen}

\* frames per second: the rates of common video, and rates that put
\* length_ms * fps / 1000 half way between two integers
FpsArgs == {1, 25, 30, 50}

InitAudio ==
    /\ LET r == construct(None, DefaultWidth, DefaultHeight, DefaultColorFormat,
                          DefaultNumChannels, DefaultSampleBytes,
                          DefaultSampleRate, DefaultVolume)
       IN  /\ r.raised = ""
           /\ bw = r.self
           /\ disk = r.disk
    /\ fmt_in = <<>>
    /\ ret = Idle
    /\ fs = NoFiles
    /\ job = NoJob
    /\ progress_dialog = None

NextAudio ==
    \/ \E f \in AudioFilenameArgs : ChangeFilename(f)
    \/ \E nc \in NumChannelsArgs, sb \in AudioSampleBytesArgs,
          sr \in AudioSampleRateArgs, vol \in AudioVolumeArgs :
          SetAudioSettings(nc, sb, sr, vol)
    \/ \E fps \in FpsArgs : GetFrameCount(fps)
    \/ Return

SpecAudio == InitAudio /\ [][NextAudio]_vars

-----------------------------------------------------------------------------
(* Claims about the audio artifact, checked under SpecAudio *)

\* change_filename or set_audio_settings has returned
AudioCallReturned ==
    /\ ret.op \in {"change_filename", "set_audio_settings"}
    /\ ret.raised = ""

\* C11: after compute_audio on a loaded source audio_length_ms is
\* ceil(1000 * total_bytes / (num_channels * sample_bytes * sample_rate)),
\* byte lengths that are no multiple of num_channels * sample_bytes included.
C11_LengthFromBytes ==
    (AudioCallReturned /\ bw.filename # None) =>
        bw.audio_length_ms =
            Some(CeilDiv(1000 * Val(bw.total_bytes),
                         bw.num_channels * bw.sample_bytes * bw.sample_rate))

\* the artifact of the object as it is now
ArtifactNow == disk[Val(bw.audio_filename)]

\* C12: at volume 100 the PCM payload of the artifact is the source bytes,
\* unscaled, tagged with the configured channel count, sample width and
\* sample rate.
C12_UnscaledAtFullVolume ==
    (AudioCallReturned /\ bw.filename # None /\ bw.volume = 100) =>
        /\ Val(bw.audio_filename) \in DOMAIN disk
        /\ ArtifactNow.frames = Val(bw.bytes)
        /\ ArtifactNow.volume = 100
        /\ ArtifactNow.nchannels = bw.num_channels
        /\ ArtifactNow.sampwidth = bw.sample_bytes
        /\ ArtifactNow.framerate = bw.sample_rate

\* 16-bit stereo at full volume has been set on a source that ends inside a
\* frame
C12_Witness ==
    /\ ret.op = "set_audio_settings" /\ ret.raised = ""
    /\ bw.filename # None /\ bw.volume = 100
    /\ bw.num_channels = 2 /\ bw.sample_bytes = 2
    /\ Val(bw.total_bytes) % 4 = 3

\* C13: get_frame_count(fps) is round(audio_length_ms / 1000 * fps), and no
\* smaller fps gives a larger count on the same source.
C13_FrameCount ==
    (ret.op = "get_frame_count" /\ ret.raised = "") =>
        LET length_ms == get_audio_length(ArtifactNow)
            n == length_ms * ret.arg
        IN  /\ 2 * (1000 * ret.value - n) <= 1000
            /\ 2 * (n - 1000 * ret.value) <= 1000
            /\ (2 * (n % 1000) = 1000) => ret.value % 2 = 0
            /\ \A fps \in FpsArgs :
                  fps <= ret.arg =>
                      get_frame_count(bw, disk, fps).value <= ret.value

\* a count that is a tie rounded down to the even integer
C13_Witness ==
    /\ ret.op = "get_frame_count" /\ ret.raised = ""
    /\ ret.arg = 25
    /\ get_audio_length(ArtifactNow) = 100
    /\ ret.value = 2

\* the artifact compute_audio builds from the bytes and settings of self
Built(self) ==
    IF self.volume = 100 THEN WaveFile(self)
    ELSE Scaled(WaveFile(self), self.volume)

\* C20: after a change_filename or set_audio_settings that returned, the
\* artifact and audio_length_ms are those of the current bytes and settings
\* (none without a source), and at every operation boundary temp_dir holds at
\* most one audio artifact.
C20_NoStaleArtifact ==
    /\ Cardinality(DOMAIN disk) <= 1
    /\ AudioCallReturned =>
          IF bw.filename = None
          THEN /\ disk = <<>>
               /\ bw.audio_length_ms = None
          ELSE /\ DOMAIN disk = {Val(bw.audio_filename)}
               /\ ArtifactNow = Built(bw)
               /\ bw.audio_length_ms = Some(get_audio_length(Built(bw)))

\* a second source has been loaded at reduced volume after a first one
C20_Witness ==
    /\ ret.op = "change_filename" /\ ret.raised = ""
    /\ bw.filename = Some(5)
    /\ bw.volume = 50
    /\ bw.sample_bytes = 3
    /\ disk # <<>>

\* C26: a change_filename that raises FileNotFoundError leaves the source
\* that was loaded intact: filename, bytes, total_bytes, audio_filename and
\* audio_length_ms are as before, and the audio artifact that was in
\* temp_dir is still there.
C26_MissingFileKeepsSource ==
    [][(ret = Idle /\ ret'.op = "change_filename"
          /\ ret'.raised = "FileNotFoundError") =>
          /\ bw'.filename = bw.filename
          /\ bw'.bytes = bw.bytes
          /\ bw'.total_bytes = bw.total_bytes
          /\ bw'.audio_filename = bw.audio_filename
          /\ bw'.audio_length_ms = bw.audio_length_ms
          /\ (bw.audio_filename # None /\ Val(bw.audio_filename) \in DOMAIN disk) =>
                /\ Val(bw.audio_filename) \in DOMAIN disk'
                /\ disk'[Val(bw.audio_filename)] = disk[Val(bw.audio_filename)]]_vars

\* C27: whenever a source is loaded, audio_length_ms is a positive integer.
C27_PositiveLength ==
    bw.filename # None =>
        /\ bw.audio_length_ms # None
        /\ Val(bw.audio_length_ms) > 0

\* C28: on a loaded source every timestamp export_sequence uses,
\* round(i / fps * 1000) for i below get_frame_count(fps), lies in
\* [0, audio_length_ms], and the address of its frame is a whole number of
\* blocks of width * color_bytes bytes, from 0 to total_blocks of them.
C28_TimestampsInRange ==
    (ret.op = "get_frame_count" /\ ret.raised = "" /\ bw.filename # None) =>
        \A i \in 0 .. ret.value - 1 :
            LET frame_ms == FrameMs(i, ret.arg)
                address == get_address(bw, frame_ms)
                block == bw.width * bw.color_bytes
            IN  /\ frame_ms >= 0
                /\ frame_ms <= Val(bw.audio_length_ms)
                /\ address.raised = ""
                /\ address.value % block = 0
                /\ address.value >= 0
                /\ address.value <= CeilDiv(Val(bw.total_bytes), block) * block

\* C30: at every operation boundary the loaded-state fields agree: filename,
\* bytes, total_bytes, audio_filename and audio_length_ms are all None or
\* none of them is, and total_bytes is the number of bytes loaded.
C30_LoadedFieldsAgree ==
    /\ (bw.filename = None) <=> (bw.bytes = None)
    /\ (bw.filename = None) <=> (bw.total_bytes = None)
    /\ (bw.filename = None) <=> (bw.audio_filename = None)
    /\ (bw.filename = None) <=> (bw.audio_length_ms = None)
    /\ bw.filename # None => Val(bw.total_bytes) = Len(Val(bw.bytes))

-----------------------------------------------------------------------------
(* SpecConfig: the three configuration setters called with valid and with  *)
(* invalid values, each value just inside or just outside its range, on an *)
(* object with and without a source.                                       *)

ConfigFilenameArgs == {None, Some(MissingFile), Some(3), Some(8)}
ConfigFormatArgs == {<<"b", "g", "r", "x">>, <<" ", "W">>, <<"r", "r">>, <<>>}
ConfigNumChannelsArgs == {1, 2, 3}
ConfigSampleBytesArgs == {0, 1, 4, 5}
ConfigSampleRateArgs == {0, 1, 100}
ConfigVolumeArgs == {-1, 0, 100, 101}

InitConfig ==
    /\ \E width \in 4 .. MaxDim, height \in 4 .. MaxDim :
          LET r == construct(None, width, height, DefaultColorFormat,
                             DefaultNumChannels, DefaultSampleBytes,
                             DefaultSampleRate, DefaultVolume)
          IN  /\ r.raised = ""
              /\ bw = r.self
              /\ disk = r.disk
    /\ fmt_in = <<>>
    /\ ret = Idle
    /\ fs = NoFiles
    /\ job = NoJob
    /\ progress_dialog = None

NextConfig ==
    \/ \E f \in ConfigFilenameArgs : ChangeFilename(f)
    \/ \E width \in DimArgs, height \in DimArgs : SetDims(width, height)
    \/ \E s \in ConfigFormatArgs : SetColorFormat(s)
    \/ \E nc \in ConfigNumChannelsArgs, sb \in ConfigSampleBytesArgs,
          sr \in ConfigSampleRateArgs, vol \in ConfigVolumeArgs :
          SetAudioSettings(nc, sb, sr, vol)
    \/ Return

SpecConfig == InitConfig /\ [][NextConfig]_vars

-----------------------------------------------------------------------------
(* Claims about the configuration setters, checked under SpecConfig *)

\* the call made in this step raised ValueError
RaisesValueError == ret'.raised = "ValueError"

\* C14 for set_dims: ValueError iff width < 4 or height < 4, the values
\* passed stored otherwise
DimsRejectedNotClamped ==
    \A width \in DimArgs, height \in DimArgs :
        SetDims(width, height) =>
            /\ RaisesValueError <=> (width < 4 \/ height < 4)
            /\ ~RaisesValueError =>
                  /\ bw'.width = width
                  /\ bw'.height = height
                  /\ bw'.dim = <<width, height>>

\* C14 for set_audio_settings: ValueError iff num_channels is not 1 or 2, or
\* sample_bytes is not 1..4, or sample_rate < 1, or volume is not in 0..100,
\* the values passed stored otherwise
AudioRejectedNotClamped ==
    \A nc \in ConfigNumChannelsArgs, sb \in ConfigSampleBytesArgs,
       sr \in ConfigSampleRateArgs, vol \in ConfigVolumeArgs :
        SetAudioSettings(nc, sb, sr, vol) =>
            /\ RaisesValueError <=>
                  \/ nc \notin {1, 2}
                  \/ sb \notin {1, 2, 3, 4}
                  \/ sr < 1
                  \/ vol < 0 \/ vol > 100
            /\ ~RaisesValueError =>
                  /\ bw'.num_channels = nc
                  /\ bw'.sample_bytes = sb
                  /\ bw'.sample_rate = sr
                  /\ bw'.volume = vol

\* C14 for set_color_format: ValueError iff the string is invalid, the
\* format the string denotes stored otherwise
FormatRejectedNotClamped ==
    \A s \in ConfigFormatArgs :
        SetColorFormat(s) =>
            /\ RaisesValueError <=> ~is_color_format_valid(s)
            /\ ~RaisesValueError =>
                  /\ get_color_format_string(bw') = lower(strip(s))
                  /\ bw'.color_bytes = Len(strip(s))

\* C14: configuration values are rejected, never clamped: each setter raises
\* ValueError exactly for the values outside its range, and a call that is
\* accepted stores exactly the values passed.
C14_RejectedNotClamped ==
    [][/\ DimsRejectedNotClamped
       /\ AudioRejectedNotClamped
       /\ FormatRejectedNotClamped]_vars

\* the values at the edge of each range have been accepted on a loaded source
C14_Witness ==
    /\ ret.op = "set_audio_settings" /\ ret.raised = ""
    /\ bw.filename = Some(8)
    /\ bw.num_channels = 2 /\ bw.sample_bytes = 4
    /\ bw.sample_rate = 1 /\ bw.volume = 0

\* C29: a set_dims, set_color_format or set_audio_settings call that raises
\* ValueError changes nothing: every field of the object and every file of
\* temp_dir, the audio artifact among them, is as it was before the call.
C29_RejectedChangesNothing ==
    [][(ret'.op \in {"set_dims", "set_color_format", "set_audio_settings"}
          /\ ret'.raised = "ValueError") =>
          /\ bw' = bw
          /\ disk' = disk]_vars

\* set_audio_settings has raised ValueError on a loaded source whose
\* artifact, 32-bit audio at 100 Hz, is as the settings say
C29_Witness ==
    /\ ret.op = "set_audio_settings" /\ ret.raised = "ValueError"
    /\ bw.filename = Some(8)
    /\ bw.sample_bytes = 4 /\ bw.sample_rate = 100 /\ bw.num_channels = 2
    /\ ArtifactNow.sampwidth = 4 /\ ArtifactNow.framerate = 100
    /\ bw.audio_length_ms = Some(get_audio_length(ArtifactNow))

=============================================================================
